---- MODULE Spec2Model ----
(***************************************************************************)
(* tape2tube: incremental "audio file -> still-image video -> upload"      *)
(* pipeline (src/tape2tube.py).  The model follows main() statement by     *)
(* statement; every external interaction (directory scan, encoder,         *)
(* upload, state-file write, playlist call) is a step of its own, so that  *)
(* the other programs of the machine (EnvWrite, EnvDelete) and a kill of   *)
(* the process (Crash) can fall between any two of them.                   *)
(***************************************************************************)
EXTENDS Integers, Sequences, FiniteSets, TLC

\* ---------------------------------------------------------------- bounds
MaxRuns    == 2   \* invocations of main() in one behaviour
MaxTouches == 1   \* writes/deletes of audio files by other programs
MaxTemplate == 6  \* characters of a title or description template
MaxChunks  == 1   \* next_chunk() calls of one upload that return no response
MaxLimit   == 2   \* the largest --limit of the runs over three audio files

\* --limit: no cap, or a cap of one file: below the queue when both audio
\* files are eligible, not below it when one or none is.
Limits == {0, 1}

\* st_size and st_mtime.  The program compares sizes for equality only, and
\* modification times for equality and order, among the audio files and one
\* record each: two values of each realise every outcome of these
\* comparisons.
Sizes  == {1, 2}
Mtimes == {1, 2}

\* ------------------------------------------------------- the file system
\* Directory entries of audio_dir, with the suffix pathlib gives each.
\* c.mp3 is there from the start only in the runs over three audio files
\* (SpecLimit); elsewhere it is there once another program has written it.
Names == {"a.mp3", "b.MP3", "c.mp3", "n.txt"}

suffix(p) == CASE p = "a.mp3" -> ".mp3"
               [] p = "b.MP3" -> ".MP3"
               [] p = "c.mp3" -> ".mp3"
               [] OTHER       -> ".txt"

lower(s) == IF s = ".MP3" THEN ".mp3" ELSE s

\* Path.resolve(): the absolute path of an entry of audio_dir.
resolve(p) == <<"/audio", p>>

Keys == {resolve(p) : p \in Names}

\* sort_keys=True of json.dumps orders the keys as strings.
KeyRank(k) == CASE k[2] = "a.mp3" -> 1
                [] k[2] = "b.MP3" -> 2
                [] k[2] = "c.mp3" -> 3
                [] OTHER          -> 4

NoFile == [exists |-> FALSE, size |-> 0, mtime |-> 0]
Stat(s, m) == [exists |-> TRUE, size |-> s, mtime |-> m]
Stats == {Stat(s, m) : s \in Sizes, m \in Mtimes}

\* An absent dictionary entry, and an UploadRecord.
NoId == <<0, 0>>
NoRec == [present |-> FALSE, size |-> 0, mtime |-> 0, video_id |-> NoId, uploaded_at |-> 0]
Rec(s, m, v, t) == [present |-> TRUE, size |-> s, mtime |-> m, video_id |-> v, uploaded_at |-> t]

EmptyState == [k \in Keys |-> NoRec]

VARIABLES
  fs,          \* audio_dir: entry name -> stat (or NoFile)
  stateFile,   \* the state file: [kind: "absent" | "json" | "torn", text]
  committed,   \* the records whose write to the state file has completed
  pc,          \* position of main(): "idle" when no run is in progress
  args,        \* parse_args() and the configuration of the current run
  state,       \* main's `state["uploaded"]`
  files,       \* find_mp3s's `files` while audio_dir is scanned
  mp3s,        \* main's `mp3s`
  cmd,         \* main's `cmd`, as build_video returned it
  idx,         \* main's loop index (1-based position in mp3s)
  video_id,    \* main's `video_id`
  exit,        \* how the last run ended: [how, code]
  runs,        \* runs started so far; it is also the clock of time.time()
  touches,     \* writes/deletes by other programs so far
  hist,        \* history of the current run (see NoHist)
  call,        \* a helper function called on its own: its name and arguments
  ret          \* what that call returned

\* The helpers render_template and build_video read nothing but their
\* arguments; they are exercised on their own (SpecHelpers below), and main's
\* steps leave call and ret alone.
pure == <<call, ret>>
NoCall == [fn |-> "none"]
NoResult == [done |-> FALSE, value |-> <<>>]
Result(v) == [done |-> TRUE, value |-> v]

vars == <<fs, stateFile, committed, pc, args, state, files, mp3s, cmd, idx,
          video_id, exit, runs, touches, hist, call, ret>>

\* ------------------------------------------------- pure functions of src
\* sorted(files, key=...): Python's sort is stable; insertion keeps the order
\* of the input among equal keys.  key is a function on the elements.
Insert(s, x, key) ==
  LET k == Cardinality({i \in 1..Len(s) : key[s[i]] <= key[x]})
  IN  SubSeq(s, 1, k) \o <<x>> \o SubSeq(s, k + 1, Len(s))

RECURSIVE sorted(_, _)
sorted(seq, key) ==
  IF seq = <<>> THEN <<>>
  ELSE Insert(sorted(SubSeq(seq, 1, Len(seq) - 1), key), seq[Len(seq)], key)

\* [p for p in listing if cond]
RECURSIVE Filter(_, _)
Filter(s, keep) ==
  IF s = <<>> THEN <<>>
  ELSE IF Head(s) \in keep THEN <<Head(s)>> \o Filter(Tail(s), keep)
       ELSE Filter(Tail(s), keep)

\* input_dir.iterdir(): the existing entries, in an order the OS chooses.
iterdir(f) ==
  LET present == {p \in Names : f[p].exists}
  IN  {s \in [1..Cardinality(present) -> present] :
         \A i, j \in DOMAIN s : i # j => s[i] # s[j]}

\* line 51: the entries with the suffix .mp3, in the order of the listing.
mp3_files(listing) ==
  Filter(listing, {p \in Names : lower(suffix(p)) = ".mp3"})

\* line 52: the key function p.stat().st_mtime, with the stats as they are
\* when the list is sorted.
mtime_key(f) == [p \in Names |-> f[p].mtime]

find_mp3s(listing, f) == sorted(mp3_files(listing), mtime_key(f))

\* Mutants of is_new: the mtime compared with the wrong field of the record;
\* a file taken as new only when both components differ.
is_new_wrong_field(mp3_path, st, f) ==
  LET prev == st[resolve(mp3_path)]
      stat == f[mp3_path]
  IN  IF ~prev.present THEN TRUE
      ELSE ~(prev.size = stat.size /\ prev.uploaded_at = stat.mtime)

is_new_both_differ(mp3_path, st, f) ==
  LET prev == st[resolve(mp3_path)]
      stat == f[mp3_path]
  IN  IF ~prev.present THEN TRUE
      ELSE prev.size # stat.size /\ prev.mtime # stat.mtime

is_new(mp3_path, st, f) ==
  LET key  == resolve(mp3_path)
      prev == st[key]
      stat == f[mp3_path]
  IN  IF ~prev.present THEN TRUE
      ELSE ~(prev.size = stat.size /\ prev.mtime = stat.mtime)

\* Mutants of mark_uploaded: the time of the upload stored as the mtime; the
\* dictionary started afresh with the one record.
mark_uploaded_now(mp3_path, st, vid, f, t) ==
  LET stat == f[mp3_path]
  IN  [st EXCEPT ![resolve(mp3_path)] = Rec(stat.size, t, vid, t)]

mark_uploaded_alone(mp3_path, st, vid, f, t) ==
  LET stat == f[mp3_path]
  IN  [EmptyState EXCEPT ![resolve(mp3_path)] = Rec(stat.size, stat.mtime, vid, t)]

mark_uploaded(mp3_path, st, vid, f, t) ==
  LET stat == f[mp3_path]
  IN  [st EXCEPT ![resolve(mp3_path)] = Rec(stat.size, stat.mtime, vid, t)]

\* json.dumps(data, sort_keys=True): the entries of the dictionary, by key.
json_dumps(st) ==
  LET keys == {k \in Keys : st[k].present}
      RECURSIVE Emit(_)
      Emit(ks) ==
        IF ks = {} THEN <<>>
        ELSE LET k == CHOOSE x \in ks : \A y \in ks : KeyRank(x) <= KeyRank(y)
             IN  <<<<k, st[k]>>>> \o Emit(ks \ {k})
  IN  Emit(keys)

\* json.loads(text): the dictionary with those entries.
json_loads(text) ==
  [k \in Keys |->
     IF \E i \in DOMAIN text : text[i][1] = k
     THEN text[CHOOSE i \in DOMAIN text : text[i][1] = k][2]
     ELSE NoRec]

AbsentFile    == [kind |-> "absent", text |-> <<>>]
TornFile      == [kind |-> "torn", text |-> <<>>]
JsonFile(txt) == [kind |-> "json", text |-> txt]

\* load_json raises (json.JSONDecodeError) on a file that is not JSON.
load_raises(file) == file.kind = "torn"

load_json(file, default) ==
  IF file.kind = "absent" THEN default ELSE json_loads(file.text)

load_state(file) == load_json(file, EmptyState)

\* Path.write_text: open(path, "w") truncates the file, then the text is
\* written and the file closed.
write_text_open(file) == TornFile
\* (Mutant: an empty dictionary written.)
save_json_blank(data) == JsonFile(<<>>)

save_json(data) == JsonFile(json_dumps(data))

\* (Mutant: the file --only names queued only if change detection finds it
\* new.)
only_queue_if_new(only_path, st, f) ==
  IF is_new(only_path, st, f) THEN <<only_path>> ELSE <<>>

\* line 306: mp3s = [only_path]
only_queue(only_path, st, f) == <<only_path>>

\* mp3s[: args.limit]
Take(s, n) == SubSeq(s, 1, IF n < Len(s) THEN n ELSE Len(s))

\* Mutant of apply_limit: the cap keeps the end of the list.
apply_limit_tail(q, limit) ==
  IF limit # 0 /\ limit > 0 /\ limit < Len(q)
  THEN SubSeq(q, Len(q) - limit + 1, Len(q)) ELSE q

apply_limit(q, limit) == IF limit # 0 /\ limit > 0 THEN Take(q, limit) ELSE q

\* (Mutant: a default picture when the directory has none.)
pick_random_jpg_default(images) == IF images = {} THEN {"default.jpg"} ELSE images

\* pick_random_jpg: the images random.choice may return; {} when it raises.
pick_random_jpg(images) == images

\* The except clauses of main's loop: is the exception caught (and the loop
\* continued) or does it end the run?
\* (Mutants: clauses that catch nothing, or only a missing file.)
render_caught_none(exc)   == FALSE
upload_caught_narrow(exc) == exc = "OSError"
playlist_caught_none(exc) == FALSE

render_caught(exc)   == exc = "CalledProcessError"   \* line 337
upload_caught(exc)   == TRUE                         \* line 366: Exception
playlist_caught(exc) == TRUE                         \* line 378: Exception

\* (Mutant: the --dry-run flag not looked at.)
dry_run_ignored(a) == FALSE

\* line 317: `if args.dry_run:`.
dry_run_stops(a) == a.dry_run

\* Where the two `continue` statements of the loop body lead.
\* (Mutant: a failed upload falls through to the bookkeeping.)
on_upload_error_fallthrough == "mark"

\* (Mutant: a failed render tried again.)
on_render_error_retry == "render"

on_render_error == "loop"   \* line 339
on_upload_error == "loop"   \* line 368

\* The order of the statements of the loop body after the upload.
\* (Mutant: the playlist call made before the record is written.)
body_order_attach_first ==
  <<"publish", "playlist", "mark", "save", "write", "loop">>

body_order == <<"publish", "mark", "save", "write", "playlist", "loop">>

after(step) ==
  body_order[1 + CHOOSE i \in 1..(Len(body_order) - 1) : body_order[i] = step]


\* ------------------------------------------ render_template (lines 143-155)
\* A string is the sequence of its characters.  Templates are written with
\* the two braces, a blank and one letter: "k" is the one key of the context,
\* so that "kk", "k k" and " " are keys the context does not have.
Chars  == {"{", "}", " ", "k"}
Braces == {"{", "}"}
Templates == UNION {[1..n -> Chars] : n \in 0..MaxTemplate}

\* Context values: strings (one with a brace, one that reads as a
\* placeholder) and a number.
StrVal(v) == [type |-> "str", s |-> v, n |-> 0]
IntVal(n) == [type |-> "int", s |-> <<>>, n |-> n]
Values == {StrVal(<<>>), StrVal(<<"v">>), StrVal(<<"}">>),
           StrVal(<<"{", "k", "}">>), IntVal(7)}
Contexts == {[key \in {<<"k">>} |-> v] : v \in Values}

\* str(): a string is returned as it is, a number in decimal.
DigitChars == <<"0", "1", "2", "3", "4", "5", "6", "7", "8", "9">>
RECURSIVE decimal(_)
decimal(n) == IF n < 10 THEN <<DigitChars[n + 1]>>
              ELSE decimal(n \div 10) \o <<DigitChars[(n % 10) + 1]>>
str(x) == IF x.type = "int" THEN decimal(x.n) ELSE x.s

\* str.strip()
RECURSIVE lstrip(_)
lstrip(s) == IF s # <<>> /\ Head(s) = " " THEN lstrip(Tail(s)) ELSE s
RECURSIVE rstrip(_)
rstrip(s) == IF s # <<>> /\ s[Len(s)] = " "
             THEN rstrip(SubSeq(s, 1, Len(s) - 1)) ELSE s
strip(s) == rstrip(lstrip(s))

\* context.get(key, "")
get(context, key) == IF key \in DOMAIN context THEN context[key] ELSE StrVal(<<>>)

\* lines 147-149: the replacement of one match, group(1) being the text
\* between its braces.
replace(group1, context) == str(get(context, strip(group1)))

\* re.sub(r"\{([^{}]+)\}", replace, template): the matches are found left to
\* right and do not overlap; a "{" starts a match when the next brace after
\* it is a "}" with at least one character in between.  What a replacement
\* returns is not scanned again.
RECURSIVE re_sub(_, _)
re_sub(s, context) ==
  IF s = <<>> THEN <<>>
  ELSE IF Head(s) # "{" THEN <<Head(s)>> \o re_sub(Tail(s), context)
  ELSE LET rest == Tail(s)
           next == {j \in DOMAIN rest : rest[j] \in Braces}
           j    == CHOOSE x \in next : \A y \in next : x <= y
       IN  IF next # {} /\ rest[j] = "}" /\ j > 1
           THEN replace(SubSeq(rest, 1, j - 1), context)
                  \o re_sub(SubSeq(rest, j + 1, Len(rest)), context)
           ELSE <<"{">> \o re_sub(rest, context)

HasBrace(s) == \E i \in DOMAIN s : s[i] \in Braces

\* Mutant of render_template: the text returned without the look for braces.
render_template_unchecked(template, context) ==
  IF template = <<>> THEN <<>> ELSE re_sub(template, context)

render_template(template, context) ==
  IF template = <<>> THEN <<>>
  ELSE LET rendered == re_sub(template, context)
       IN  IF HasBrace(rendered) THEN <<>> ELSE rendered

\* ---------------------------------------------- build_video (lines 166-214)
\* The "waveform" object of the configuration.  A key is "absent" or has the
\* JSON value written here as text.
Absent == "absent"
Waveforms == [enabled        : {Absent, "false", "true"},
              mode           : {Absent, "line", "cline", "spectrum",
                                "showspectrum"},
              fps            : {Absent, "24", "24.5", "fast"},
              height         : {Absent, "120", "tall"},
              color          : {Absent, "red"},
              spectrum_mode  : {Absent, "separate"},
              spectrum_slide : {Absent, "2", "slow"},
              spectrum_scale : {Absent, "log"}]

\* dict.get(key, default)
wf_get(waveform, key, default) ==
  IF waveform[key] = Absent THEN default ELSE waveform[key]

\* The truth value of waveform.get("enabled"): None and false are falsy.
truthy(v) == v = "true"

\* int(): of an integer, the integer; of a float, the float truncated; of a
\* string that is not a number, ValueError (is_int false).
is_int(v) == v \in {"1", "2", "24", "24.5", "30", "120", "200"}
int(v) == IF v = "24.5" THEN "24" ELSE v

\* (mp3_path.stem + ".mp4") under out_dir
out_path(mp3_path) == CASE mp3_path = "a.mp3" -> "out/a.mp4"
                        [] mp3_path = "b.MP3" -> "out/b.mp4"
                        [] mp3_path = "c.mp3" -> "out/c.mp4"
                        [] OTHER -> "out/n.mp4"

\* video_size.split("x")[0]
width(video_size) == CASE video_size = "1280x720" -> "1280"
                       [] OTHER -> video_size

\* (Mutant: only the long name selects the spectrum.)
spectrum_modes_long == {"showspectrum"}

\* line 177
spectrum_modes == {"spectrum", "showspectrum"}

\* lines 181-186 and 189-193: the f-strings, as the sequence of their parts.
spectrum_filter(video_size, wf_height, wf_color, slide, smode, scale) ==
  <<"[0:v]scale=", video_size, ",format=yuv420p[bg];",
    "[1:a]showspectrum=s=", width(video_size), "x", wf_height, ":",
    "color=", wf_color, ":slide=", slide, ":",
    "mode=", smode, ":scale=", scale, "[sw];",
    "[bg][sw]overlay=(W-w)/2:(H-h)/2">>

waves_filter(video_size, wf_height, wf_mode, wf_color) ==
  <<"[0:v]scale=", video_size, ",format=yuv420p[bg];",
    "[1:a]showwaves=s=", width(video_size), "x", wf_height, ":",
    "mode=", wf_mode, ":colors=", wf_color, "[sw];",
    "[bg][sw]overlay=(W-w)/2:(H-h)/2">>

\* What build_video returns: cmd, with the filter graph (the one argument
\* that follows -filter_complex) kept apart as `graph`; or it raises.
BuildRaises == [raised |-> TRUE, cmd |-> <<>>, graph |-> <<>>, out |-> ""]
Built(argv, graph, out) == [raised |-> FALSE, cmd |-> argv, graph |-> graph, out |-> out]

build_video(mp3_path, image_path, video_size, waveform) ==
  LET fps       == wf_get(waveform, "fps", "30")                \* line 169
      wf_height == wf_get(waveform, "height", "200")            \* line 172
      wf_mode   == wf_get(waveform, "mode", "line")             \* line 173
      wf_color  == wf_get(waveform, "color", "white@0.8")       \* line 174
      spectrum_mode  == wf_get(waveform, "spectrum_mode", "combined")
      spectrum_slide == wf_get(waveform, "spectrum_slide", "1") \* line 179
      spectrum_scale == wf_get(waveform, "spectrum_scale", "lin")
  IN  IF ~is_int(fps) THEN BuildRaises
      ELSE IF truthy(wf_get(waveform, "enabled", Absent))
      THEN IF ~is_int(wf_height) THEN BuildRaises
           ELSE IF wf_mode \in spectrum_modes /\ ~is_int(spectrum_slide)
           THEN BuildRaises
           ELSE
           LET graph == IF wf_mode \in spectrum_modes
                        THEN spectrum_filter(video_size, int(wf_height),
                                             wf_color, int(spectrum_slide),
                                             spectrum_mode, spectrum_scale)
                        ELSE waves_filter(video_size, int(wf_height), wf_mode,
                                          wf_color)
           IN  Built(<<"ffmpeg", "-y", "-loop", "1", "-framerate", int(fps),
                       "-i", image_path, "-i", mp3_path,
                       "-filter_complex", "graph",
                       "-c:v", "libx264", "-tune", "stillimage", "-r", int(fps),
                       "-c:a", "aac", "-b:a", "192k", "-shortest",
                       out_path(mp3_path)>>, graph, out_path(mp3_path))
      ELSE Built(<<"ffmpeg", "-y", "-loop", "1", "-framerate", "1",
                   "-i", image_path, "-i", mp3_path,
                   "-c:v", "libx264", "-tune", "stillimage",
                   "-c:a", "aac", "-b:a", "192k",
                   "-shortest", "-pix_fmt", "yuv420p",
                   out_path(mp3_path)>>, <<>>, out_path(mp3_path))

\* ------------------------------------------------------------ the inputs
NoOnly == "none"
OnlyChoices == {NoOnly, "a.mp3"}

\* The command lines and configurations tried (--limit has no effect on the
\* one file of --only, so it is left at its default there).
\* line 291: config.get("waveform", {"enabled": False}); the default, and a
\* configuration whose fps is not a number.
NoWaveform == [enabled |-> Absent, mode |-> Absent, fps |-> Absent,
               height |-> Absent, color |-> Absent, spectrum_mode |-> Absent,
               spectrum_slide |-> Absent, spectrum_scale |-> Absent]
DefaultWaveform == [NoWaveform EXCEPT !.enabled = "false"]
ConfigWaveforms == {DefaultWaveform, [NoWaveform EXCEPT !.fps = "fast"]}

\* A dry run reads neither playlist_id nor waveform, and a run whose
\* waveform makes build_video raise ends before it reads playlist_id: these
\* are left at their defaults there.
Args == {a \in [only : OnlyChoices, dry_run : BOOLEAN, limit : Limits,
                 playlist_id : {"", "PL"}, waveform : ConfigWaveforms] :
           /\ a.only # NoOnly => a.limit = 0
           /\ a.dry_run => a.playlist_id = "" /\ a.waveform = DefaultWaveform
           /\ a.waveform # DefaultWaveform => a.playlist_id = ""}
NoArgs == [only |-> NoOnly, dry_run |-> FALSE, limit |-> 0, playlist_id |-> "",
           waveform |-> DefaultWaveform]

\* images_dir as pick_random_jpg finds it.
ImageDirs == {{}, {"bg.jpg"}}

\* ------------------------------------------------------------ the history
\* hist records what the current run has done, for the properties below:
\*   trace   the steps taken, in order
\*   loaded  the dictionary load_state returned
\*   queue   the list line 308 built, work the list after line 311
\*   keys    the mtime of each entry as the sort of line 52 read it
\*   snap    the stat of each entry as the scan last read it (line 52, and
\*           line 71 for the files that had a record)
\*   images  the pictures images_dir had when the last item was started
\*   chunks  the next_chunk() calls of the current upload so far that
\*           returned no response, response what the last of them returned
\*   same    the entries that, when scanned, had a record with their size
\*           and mtime; fresh the audio files that had not
\*   prev    what the run before this one left: ok (a scan run, not a dry
\*           run, that returned 0), full (ok, and it recorded every file of
\*           its queue), attachFailed (files whose playlist call failed and
\*           that no program has written since), failed (files whose
\*           render or upload failed, not written since), recorded (those
\*           of failed that had, when the run ended, a record with their
\*           size and mtime)
\*   between whether a program wrote audio_dir since the run before
\*   idem    a scan run that follows a full run with no write in between
\*   left    (once the run has ended) what this run leaves, as in prev
\* prev and between are kept until the list of the run is built (Limit).
\* When a run ends, only its last step and what it leaves are kept.
Event(op, item, vid) == [op |-> op, item |-> item, vid |-> vid]
NoPrev == [ok |-> FALSE, full |-> FALSE, attachFailed |-> {}, failed |-> {},
           recorded |-> {}]
NoHist == [trace |-> <<>>, loaded |-> EmptyState, queue |-> <<>>, work |-> <<>>,
           keys |-> [p \in Names |-> 0],
           snap |-> [p \in Names |-> NoFile], chunks |-> 0, response |-> "",
           images |-> {},
           same |-> {}, fresh |-> {}, prev |-> NoPrev, between |-> FALSE,
           left |-> NoPrev, idem |-> FALSE]
Log(op, item, vid) == [hist EXCEPT !.trace = Append(@, Event(op, item, vid))]

Did(op, p) == \E i \in DOMAIN hist.trace :
                hist.trace[i].op = op /\ hist.trace[i].item = p

Returned(code) == [how |-> "return", code |-> code, at |-> ""]
Raised         == [how |-> "exception", code |-> 1, at |-> ""]
Killed(at)     == [how |-> "killed", code |-> 137, at |-> at]
NotRun         == [how |-> "none", code |-> 0, at |-> ""]

\* (Mutant: the missing file reported, the run ended as a success.)
missing_secrets_ignored == Returned(0)

\* lines 323-325: `return 1` when client_secrets does not exist.
missing_secrets_result == Returned(1)

DidIn(h, op, p) == \E i \in DOMAIN h.trace :
                     h.trace[i].op = op /\ h.trace[i].item = p

Summary(h, result) ==
  LET ok == result = Returned(0) /\ args.only = NoOnly /\ ~args.dry_run
      failed == {p \in Names : \/ DidIn(h, "render_failed", p)
                              \/ DidIn(h, "publish_failed", p)}
  IN  [ok |-> ok,
       full |-> ok /\ \A i \in DOMAIN h.queue : DidIn(h, "flushed", h.queue[i]),
       attachFailed |-> {p \in Names : DidIn(h, "attach_failed", p)},
       failed |-> failed,
       recorded |-> {p \in failed : /\ fs[p].exists
                                     /\ state[resolve(p)].present
                                     /\ state[resolve(p)].size = fs[p].size
                                     /\ state[resolve(p)].mtime = fs[p].mtime}]

Digest(h, result) ==
  [NoHist EXCEPT !.trace = IF h.trace = <<>> THEN <<>>
                           ELSE <<h.trace[Len(h.trace)]>>,
                 !.left = Summary(h, result),
                 !.idem = h.idem]

Touched(p) == [hist EXCEPT !.between = @ \/ pc \in {"select", "sort", "filter"},
                           !.prev.attachFailed = @ \ {p},
                           !.prev.failed = @ \ {p},
                           !.prev.recorded = @ \ {p}]

\* The process ends with history h: its memory is gone.
End(result, h) ==
  /\ pc' = "idle"
  /\ exit' = result
  /\ args' = NoArgs
  /\ state' = EmptyState
  /\ files' = <<>>
  /\ mp3s' = <<>>
  /\ cmd' = <<>>
  /\ idx' = 0
  /\ video_id' = NoId
  /\ hist' = Digest(h, result)

mp3 == mp3s[idx]

\* int(time.time())
time == runs

\* The identifier the platform gives an accepted upload: never one it gave
\* before.
NewId == <<runs, idx>>

Init ==
  /\ fs \in [Names -> {NoFile} \cup {Stat(1, m) : m \in Mtimes}]
  /\ fs["n.txt"] = Stat(1, 1)
  /\ fs["a.mp3"] = Stat(1, 1)
  /\ fs["c.mp3"] = NoFile
  /\ stateFile = AbsentFile
  /\ committed = EmptyState
  /\ pc = "idle"
  /\ args = NoArgs
  /\ state = EmptyState
  /\ files = <<>>
  /\ mp3s = <<>>
  /\ cmd = <<>>
  /\ idx = 0
  /\ video_id = NoId
  /\ exit = NotRun
  /\ runs = 0
  /\ touches = 0
  /\ hist = NoHist
  /\ call = NoCall
  /\ ret = NoResult

\* ------------------------------------------------------------------ main
\* lines 270-297: arguments, configuration, load_state.
StartWith(arguments) ==
  /\ UNCHANGED pure
  /\ pc = "idle"
  /\ runs < MaxRuns
  /\ runs' = runs + 1
  /\ UNCHANGED <<fs, stateFile, committed, touches>>
  /\ IF load_raises(stateFile)
     THEN End(Raised, NoHist)
     ELSE /\ \E a \in arguments : args' = a
          /\ state' = load_state(stateFile)
          /\ hist' = [NoHist EXCEPT !.loaded = load_state(stateFile),
                                    !.prev = IF args'.only = NoOnly
                                             THEN hist.left ELSE NoPrev]
          /\ pc' = "select"
          /\ exit' = NotRun
          /\ UNCHANGED <<files, mp3s, cmd, idx, video_id>>

Start == StartWith(Args)

\* lines 299-306: the file --only names; or line 308 and find_mp3s, line
\* 51: the listing of audio_dir.
Select ==
  /\ UNCHANGED pure
  /\ pc = "select"
  /\ UNCHANGED <<fs, stateFile, committed, runs, touches>>
  /\ IF args.only # NoOnly
     THEN IF ~fs[args.only].exists
          THEN /\ End(Returned(1), hist)
          ELSE /\ mp3s' = only_queue(args.only, state, fs)
               /\ pc' = "limit"
               /\ hist' = [hist EXCEPT !.snap = fs]
               /\ UNCHANGED <<state, idx, video_id, exit, args, files, cmd>>
     ELSE \E listing \in iterdir(fs) :
            /\ files' = mp3_files(listing)
            /\ pc' = "sort"
            /\ hist' = hist
            /\ UNCHANGED <<state, mp3s, idx, video_id, exit, args, cmd>>

\* line 52: sorted() stats every listed file for its key; the stat of a
\* file removed since the listing raises FileNotFoundError, which nothing
\* catches.
Sort ==
  /\ UNCHANGED pure
  /\ pc = "sort"
  /\ UNCHANGED <<fs, stateFile, committed, runs, touches>>
  /\ IF \E i \in DOMAIN files : ~fs[files[i]].exists
     THEN End(Raised, hist)
     ELSE /\ files' = sorted(files, mtime_key(fs))
          /\ pc' = "filter"
          /\ hist' = [hist EXCEPT !.snap = fs, !.keys = mtime_key(fs)]
          /\ UNCHANGED <<state, mp3s, idx, video_id, exit, args, cmd>>

\* line 308: is_new on each file of the sorted list; it stats (line 71) the
\* files that have a record, and that stat raises on a file removed since.
Detect ==
  /\ UNCHANGED pure
  /\ pc = "filter"
  /\ UNCHANGED <<fs, stateFile, committed, runs, touches>>
  /\ LET listed   == {files[i] : i \in DOMAIN files}
         rec(p)   == state[resolve(p)]
         recorded == {p \in listed : rec(p).present}
     IN  IF \E p \in recorded : ~fs[p].exists
         THEN End(Raised, hist)
         ELSE LET queue == Filter(files, {p \in Names : is_new(p, state, fs)})
                  snap  == [p \in Names |->
                              IF p \in recorded THEN fs[p] ELSE hist.snap[p]]
                  same  == {p \in recorded : /\ rec(p).size = fs[p].size
                                             /\ rec(p).mtime = fs[p].mtime}
                  fresh == listed \ same
              IN  /\ mp3s' = queue
                  /\ files' = <<>>
                  /\ pc' = "limit"
                  /\ hist' = [hist EXCEPT !.queue = queue, !.same = same,
                                          !.snap = snap,
                                          !.fresh = fresh,
                                          !.idem = hist.prev.full /\ ~hist.between]
                  /\ UNCHANGED <<state, idx, video_id, exit, args, cmd>>

\* lines 310-311: --limit.
Limit ==
  /\ UNCHANGED pure
  /\ pc = "limit"
  /\ mp3s' = apply_limit(mp3s, args.limit)
  /\ hist' = [hist EXCEPT !.work = apply_limit(mp3s, args.limit),
                          !.prev = NoPrev, !.between = FALSE]
  /\ pc' = "check"
  /\ UNCHANGED <<fs, stateFile, committed, args, state, files, cmd, idx,
                 video_id, exit, runs, touches>>

\* lines 313-325: nothing to do, dry run, missing client secrets.
Check ==
  /\ UNCHANGED pure
  /\ pc = "check"
  /\ UNCHANGED <<fs, stateFile, committed, runs, touches>>
  /\ IF mp3s = <<>>
     THEN /\ End(Returned(0), hist)
     ELSE IF dry_run_stops(args)
     THEN /\ End(Returned(0), Log("dry_run", "", NoId))
     ELSE \E secrets \in BOOLEAN :
            IF ~secrets
            THEN /\ End(missing_secrets_result, Log("no_secrets", "", NoId))
            ELSE /\ pc' = "service"
                 /\ hist' = hist
                 /\ UNCHANGED <<state, mp3s, idx, video_id, exit, args, files, cmd>>

\* line 327: get_youtube_service; the OAuth flow or the token refresh may
\* raise, and nothing catches it.
GetService ==
  /\ UNCHANGED pure
  /\ pc = "service"
  /\ UNCHANGED <<fs, stateFile, committed, runs, touches>>
  /\ \E ok \in BOOLEAN :
       IF ok
       THEN /\ pc' = "loop"
            /\ hist' = hist
            /\ UNCHANGED <<state, mp3s, idx, video_id, exit, args, files, cmd>>
       ELSE /\ End(Raised, Log("auth_failed", "", NoId))

\* lines 330-334 and 382: next item, pick_random_jpg, build_video (whose
\* int() of a waveform setting raises ValueError, which nothing catches).
LoopHead ==
  /\ UNCHANGED pure
  /\ pc = "loop"
  /\ UNCHANGED <<fs, stateFile, committed, runs, touches>>
  /\ IF idx + 1 > Len(mp3s)
     THEN /\ End(Returned(0), hist)
     ELSE \E images \in ImageDirs :
            IF pick_random_jpg(images) = {}
            THEN /\ End(Raised, Log("no_image", mp3s[idx + 1], NoId))
            ELSE \E image \in pick_random_jpg(images) :
                   LET built == build_video(mp3s[idx + 1], image, "1280x720",
                                            args.waveform)
                   IN  IF built.raised
                       THEN End(Raised, Log("build_video_raised",
                                            mp3s[idx + 1], NoId))
                       ELSE /\ idx' = idx + 1
                            /\ cmd' = built.cmd
                            /\ pc' = "render"
                            /\ hist' = [Log("start", mp3s[idx + 1], NoId)
                                          EXCEPT !.images = images]
                            /\ UNCHANGED <<state, mp3s, video_id, exit, args,
                                           files>>

\* lines 335-339: the encoder.  check=True turns a nonzero exit into
\* CalledProcessError; a missing binary raises OSError.
Render ==
  /\ UNCHANGED pure
  /\ pc = "render"
  /\ UNCHANGED <<fs, stateFile, committed, runs, touches>>
  /\ \E outcome \in {"ok", "CalledProcessError", "OSError"} :
       IF outcome = "ok"
       THEN /\ fs[mp3].exists
            /\ pc' = "publish"
            /\ hist' = Log("rendered", mp3, NoId)
            /\ UNCHANGED <<state, mp3s, idx, video_id, exit, args, files, cmd>>
       ELSE LET ev == IF outcome = "CalledProcessError" THEN "render_failed"
                      ELSE "no_encoder"
            IN  IF render_caught(outcome)
                THEN /\ pc' = on_render_error
                     /\ hist' = Log(ev, mp3, NoId)
                     /\ UNCHANGED <<state, mp3s, idx, video_id, exit, args, files, cmd>>
                ELSE End(Raised, Log(ev, mp3, NoId))

\* (Mutant: the loop of upload_video asks for another chunk whatever
\* next_chunk returned.)
upload_loop_blind(response) == TRUE

\* line 248: `while response is None`.
upload_loop_continues(response) == response = "None"

\* line 252: response.get("id"): the identifier of the response, None when
\* the response has none.
response_get_id(response) == IF response = "id" THEN NewId ELSE NoId

\* lines 341-369: build_template_context stats the file (uncaught if it is
\* gone); then upload_video: each next_chunk() returns no response yet
\* (hist.chunks counts these), or a response, with the identifier of the
\* video or without one, or raises.
Publish ==
  /\ UNCHANGED pure
  /\ pc = "publish"
  /\ UNCHANGED <<fs, stateFile, committed, runs, touches>>
  /\ IF hist.chunks = 0 /\ ~fs[mp3].exists
     THEN /\ End(Raised, Log("stat_failed", mp3, NoId))
     ELSE \E response \in {"None", "id", "no_id", "HttpError"} :
            IF response = "HttpError"
            THEN IF upload_caught(response)
                 THEN /\ pc' = on_upload_error
                      /\ hist' = [Log("publish_failed", mp3, NoId)
                                    EXCEPT !.chunks = 0, !.response = ""]
                      /\ UNCHANGED <<state, mp3s, idx, video_id, exit, args, files, cmd>>
                 ELSE End(Raised, Log("publish_failed", mp3, NoId))
            ELSE IF upload_loop_continues(response)
            THEN /\ hist.chunks < MaxChunks
                 /\ hist' = [hist EXCEPT !.chunks = @ + 1,
                                         !.response = response]
                 /\ UNCHANGED <<pc, state, mp3s, idx, video_id, exit, args, files, cmd>>
            ELSE /\ video_id' = response_get_id(response)
                 /\ pc' = after("publish")
                 /\ hist' = [Log("published", mp3, response_get_id(response))
                               EXCEPT !.chunks = 0, !.response = ""]
                 /\ UNCHANGED <<state, mp3s, idx, exit, args, files, cmd>>

\* line 371: mark_uploaded stats the file again.
Mark ==
  /\ UNCHANGED pure
  /\ pc = "mark"
  /\ UNCHANGED <<fs, stateFile, committed, runs, touches>>
  /\ IF ~fs[mp3].exists
     THEN /\ End(Raised, Log("stat_failed", mp3, video_id))
     ELSE /\ state' = mark_uploaded(mp3, state, video_id, fs, time)
          /\ pc' = after("mark")
          /\ hist' = Log("marked", mp3, video_id)
          /\ UNCHANGED <<mp3s, idx, video_id, exit, args, files, cmd>>

\* line 372, save_json: open for writing ...
SaveOpen ==
  /\ UNCHANGED pure
  /\ pc = "save"
  /\ stateFile' = write_text_open(stateFile)
  /\ pc' = after("save")
  /\ UNCHANGED <<fs, committed, args, state, files, mp3s, cmd, idx, video_id,
                 exit, runs, touches, hist>>

\* ... then write and close.  The record of the item is committed.
SaveWrite ==
  /\ UNCHANGED pure
  /\ pc = "write"
  /\ stateFile' = save_json(state)
  /\ committed' = [committed EXCEPT ![resolve(mp3)] = state[resolve(mp3)]]
  /\ pc' = after("write")
  /\ hist' = Log("flushed", mp3, video_id)
  /\ UNCHANGED <<fs, args, state, files, mp3s, cmd, idx, video_id, exit,
                 runs, touches>>

\* lines 374-380: the optional playlist call.
Playlist ==
  /\ UNCHANGED pure
  /\ pc = "playlist"
  /\ UNCHANGED <<fs, stateFile, committed, runs, touches>>
  /\ IF args.playlist_id # ""
     THEN \E outcome \in {"ok", "HttpError"} :
            IF outcome = "ok"
            THEN /\ pc' = after("playlist")
                 /\ hist' = Log("attached", mp3, video_id)
                 /\ UNCHANGED <<state, mp3s, idx, video_id, exit, args, files, cmd>>
            ELSE IF playlist_caught(outcome)
            THEN /\ pc' = after("playlist")
                 /\ hist' = Log("attach_failed", mp3, video_id)
                 /\ UNCHANGED <<state, mp3s, idx, video_id, exit, args, files, cmd>>
            ELSE End(Raised, Log("attach_failed", mp3, video_id))
     ELSE /\ pc' = after("playlist")
          /\ hist' = Log("done", mp3, video_id)
          /\ UNCHANGED <<state, mp3s, idx, video_id, exit, args, files, cmd>>

\* ------------------------------------------------------- the environment
\* The process is killed (or the machine stops) at any point of a run.
Crash ==
  /\ UNCHANGED pure
  /\ pc # "idle"
  /\ End(Killed(pc), hist)
  /\ UNCHANGED <<fs, stateFile, committed, runs, touches>>

\* Other programs write and remove audio files while main runs and between
\* its runs.  main reads audio_dir in Select (the listing), in Sort and
\* Detect (one stat of each file concerned: a change that falls between two
\* of these stats is the same as one before or after the step), in Render
\* and Publish (does the current item exist) and in Mark (the current
\* item's stat), so a change anywhere else is the same change right before
\* the next of these that reads the file: any file before Select; the
\* removal of a listed file before Sort (a write there is the same write
\* before Select); a write or the removal of a listed file that has a
\* record before Detect (the others are not read there); the current item
\* before the others.
Writable == {p \in Names : lower(suffix(p)) = ".mp3"}

Listed == {files[i] : i \in DOMAIN files}

Touchable == CASE pc = "select" -> Writable
               [] pc = "sort" -> Listed
               [] pc = "filter" -> {p \in Listed : state[resolve(p)].present}
               [] pc \in {"render", "publish", "mark"} -> {mp3} \cap Writable
               [] OTHER -> {}

EnvWrite ==
  /\ UNCHANGED pure
  /\ touches < MaxTouches
  /\ touches' = touches + 1
  /\ pc \in {"select", "filter", "mark"}
  /\ \E p \in Touchable, st \in Stats :
       /\ fs[p] # st
       /\ fs' = [fs EXCEPT ![p] = st]
       /\ hist' = Touched(p)
  /\ UNCHANGED <<stateFile, committed, pc, args, state, files, mp3s, cmd, idx,
                 video_id, exit, runs>>

EnvDelete ==
  /\ UNCHANGED pure
  /\ touches < MaxTouches
  /\ touches' = touches + 1
  /\ \E p \in Touchable :
       /\ fs[p].exists
       /\ fs' = [fs EXCEPT ![p] = NoFile]
       /\ hist' = Touched(p)
  /\ UNCHANGED <<stateFile, committed, pc, args, state, files, mp3s, cmd, idx,
                 video_id, exit, runs>>

Next ==
  \/ Start \/ Select \/ Sort \/ Detect \/ Limit \/ Check \/ GetService \/ LoopHead \/ Render
  \/ Publish \/ Mark \/ SaveOpen \/ SaveWrite \/ Playlist
  \/ Crash \/ EnvWrite \/ EnvDelete

Spec == Init /\ [][Next]_vars

\* main is a sequential program: as long as the process lives, its next
\* statement is executed, and every external call it waits for returns or
\* raises.  Nothing obliges a run to be started, the process to be killed
\* or another program to write audio_dir.
Step ==
  \/ Select \/ Sort \/ Detect \/ Limit \/ Check \/ GetService \/ LoopHead \/ Render
  \/ Publish \/ Mark \/ SaveOpen \/ SaveWrite \/ Playlist

\* One run, with two audio files (other programs may remove or rewrite
\* them) and the state file absent or as an earlier run left it; what a run
\* does next never depends on the runs before it but through these.
EarlierStates ==
  {EmptyState,
   [EmptyState EXCEPT ![resolve("a.mp3")] = Rec(1, 1, <<0, 1>>, 0)]}

InitLive ==
  /\ fs \in [Names -> {NoFile} \cup {Stat(1, m) : m \in Mtimes}]
  /\ fs["n.txt"] = Stat(1, 1)
  /\ fs["a.mp3"] = Stat(1, 1)
  /\ fs["b.MP3"].exists
  /\ fs["c.mp3"] = NoFile
  /\ \E st \in EarlierStates :
       /\ stateFile = IF st = EmptyState THEN AbsentFile ELSE save_json(st)
       /\ committed = st
  /\ pc = "idle"
  /\ args = NoArgs
  /\ state = EmptyState
  /\ files = <<>>
  /\ mp3s = <<>>
  /\ cmd = <<>>
  /\ idx = 0
  /\ video_id = NoId
  /\ exit = NotRun
  /\ runs = 0
  /\ touches = 0
  /\ hist = NoHist
  /\ call = NoCall
  /\ ret = NoResult

StartOnce == runs = 0 /\ Start

NextLive == StartOnce \/ Step \/ Crash \/ EnvWrite \/ EnvDelete

SpecLive == InitLive /\ [][NextLive]_vars /\ WF_vars(Step)

\* One scan run with --limit over up to three audio files, with three
\* modification times (so that all three can differ) and the state file
\* absent or as an earlier run left it.
ScanMtimes == {1, 2, 3}
CappedArgs == {a \in [only : {NoOnly}, dry_run : BOOLEAN, limit : 1..MaxLimit,
                       playlist_id : {"", "PL"}, waveform : {DefaultWaveform}] :
                 a.dry_run => a.playlist_id = ""}

InitLimit ==
  /\ fs \in [Names -> {NoFile} \cup {Stat(1, m) : m \in ScanMtimes}]
  /\ fs["n.txt"] = Stat(1, 1)
  /\ \E st \in EarlierStates :
       /\ stateFile = IF st = EmptyState THEN AbsentFile ELSE save_json(st)
       /\ committed = st
  /\ pc = "idle"
  /\ args = NoArgs
  /\ state = EmptyState
  /\ files = <<>>
  /\ mp3s = <<>>
  /\ cmd = <<>>
  /\ idx = 0
  /\ video_id = NoId
  /\ exit = NotRun
  /\ runs = 0
  /\ touches = 0
  /\ hist = NoHist
  /\ call = NoCall
  /\ ret = NoResult

StartCapped == runs = 0 /\ StartWith(CappedArgs)

NextLimit == StartCapped \/ Step \/ Crash \/ EnvWrite \/ EnvDelete

SpecLimit == InitLimit /\ [][NextLimit]_vars

\* Runs that follow earlier ones: as Spec, with every audio file there and
\* the state file absent or as an earlier run left it.
SpecEarlier == InitLive /\ [][Next]_vars

\* ------------------------------------------------ the helpers on their own
Calls ==
  {[fn |-> "render_template", template |-> t, context |-> c] :
     t \in Templates, c \in Contexts}
  \cup
  {[fn |-> "build_video", mp3_path |-> p, waveform |-> w] :
     p \in {"a.mp3", "b.MP3"}, w \in Waveforms}

InitHelpers ==
  /\ fs = [p \in Names |-> NoFile]
  /\ stateFile = AbsentFile
  /\ committed = EmptyState
  /\ pc = "idle"
  /\ args = NoArgs
  /\ state = EmptyState
  /\ files = <<>>
  /\ mp3s = <<>>
  /\ cmd = <<>>
  /\ idx = 0
  /\ video_id = NoId
  /\ exit = NotRun
  /\ runs = 0
  /\ touches = 0
  /\ hist = NoHist
  /\ call \in Calls
  /\ ret = NoResult

main_vars == <<fs, stateFile, committed, pc, args, state, files, mp3s, cmd,
               idx, video_id, exit, runs, touches, hist>>

CallRenderTemplate ==
  /\ call.fn = "render_template"
  /\ ~ret.done
  /\ ret' = Result(render_template(call.template, call.context))
  /\ UNCHANGED <<call, main_vars>>

CallBuildVideo ==
  /\ call.fn = "build_video"
  /\ ~ret.done
  /\ ret' = Result(build_video(call.mp3_path, "bg.jpg", "1280x720",
                               call.waveform))
  /\ UNCHANGED <<call, main_vars>>

NextHelpers == CallRenderTemplate \/ CallBuildVideo

SpecHelpers == InitHelpers /\ [][NextHelpers]_vars

\* ======================================================= the properties
Running   == pc # "idle"
Scanned   == Running /\ pc \notin {"select", "sort", "filter"} /\ args.only = NoOnly
Readable  == stateFile.kind # "torn"
FileDict  == load_state(stateFile)
Elems(q)  == {q[i] : i \in DOMAIN q}
Count(q, p) == Cardinality({i \in DOMAIN q : q[i] = p})
LastEvent == hist.trace[Len(hist.trace)]
Unwritten(k) == /\ Running => state[k] = hist.loaded[k]
                /\ Readable => FileDict[k] = hist.loaded[k]

\* C1: in a run that scans audio_dir, a file that has a record with its
\* current size and mtime is not in the work queue, no step of the run is
\* about it, and its record stays as it was loaded, in memory and on disk.
C1_UnchangedExcluded ==
  Scanned =>
    \A p \in hist.same :
      /\ p \notin Elems(hist.queue)
      /\ p \notin Elems(mp3s)
      /\ \A i \in DOMAIN hist.trace : hist.trace[i].item # p
      /\ Unwritten(resolve(p))

\* A scan run that left out a recorded, unchanged file and recorded another.
C1_Witness ==
  /\ Scanned
  /\ hist.same # {}
  /\ \E i \in DOMAIN hist.trace : hist.trace[i].op = "flushed"

\* C2: in a scan, an audio file with no record, or whose size or mtime
\* differs from its record, is in the work queue exactly once.
C2_NewOrChangedOnce ==
  Scanned => \A p \in hist.fresh : Count(hist.queue, p) = 1

\* The scan met a file whose record has its mtime but not its size, and a
\* file whose record has its size but not its mtime.
C2_Witness ==
  /\ pc = "limit" /\ args.only = NoOnly
  /\ \E p \in hist.fresh :
       /\ state[resolve(p)].present
       /\ state[resolve(p)].mtime = fs[p].mtime
       /\ state[resolve(p)].size # fs[p].size

\* C3 as stated: the run that follows a completed run (a scan, not a dry
\* run, that returned 0), with no audio file written in between, has nothing
\* in its work queue.
C3_Original ==
  (pc = "limit" /\ args.only = NoOnly /\ hist.prev.ok /\ ~hist.between)
    => mp3s = <<>>

\* C3 as amended: when that run also recorded every file of its queue, the
\* following scan run has an empty queue, takes no step on any item, keeps
\* the state store as loaded and, unless it is killed, returns 0.
C3_Idempotent ==
  hist.idem =>
    /\ hist.trace = <<>>
    /\ Running => /\ mp3s = <<>>
                  /\ hist.queue = <<>>
                  /\ state = hist.loaded
                  /\ Readable /\ FileDict = hist.loaded
    /\ (pc = "idle" /\ exit.how # "killed") => exit = Returned(0)

\* A second run that found nothing to do after a run that had recorded all
\* three audio files (c.mp3 written by another program before its scan).
C3_Witness ==
  /\ pc = "idle" /\ hist.idem /\ exit = Returned(0)
  /\ \A p \in Writable : committed[resolve(p)].present

Published(p, v) ==
  \E i \in DOMAIN hist.trace : hist.trace[i] = Event("published", p, v)

\* C4: during a run, a record differs from the one loaded (in memory or in
\* the state file) only if the upload of that file returned an identifier
\* earlier in the same run, and the record holds that identifier; the record
\* of a file whose render failed, whose upload raised, or that the loop has
\* not started, is as it was loaded.
C4_RecordOnlyAfterPublish ==
  Running =>
    \A p \in Names :
      LET k == resolve(p)
      IN  /\ state[k] # hist.loaded[k] =>
               state[k].present /\ Published(p, state[k].video_id)
          /\ (Readable /\ FileDict[k] # hist.loaded[k]) =>
               FileDict[k].present /\ Published(p, FileDict[k].video_id)
          /\ (Did("render_failed", p) \/ Did("publish_failed", p)
                \/ ~Did("start", p)) => Unwritten(k)

\* A run that has recorded one file on disk and whose upload of another
\* file raised.
C4_Witness ==
  /\ Running
  /\ \E p, q \in Names :
       /\ Did("flushed", p)
       /\ Readable /\ FileDict[resolve(p)] # hist.loaded[resolve(p)]
       /\ Did("publish_failed", q)

\* C5 as stated: a kill anywhere between the return of the upload and the
\* playlist call leaves the record of the uploaded file in the state file.
C5_Original ==
  (pc = "idle" /\ exit.how = "killed"
     /\ exit.at \in {"mark", "save", "write", "playlist"}) =>
    /\ Readable
    /\ FileDict[resolve(LastEvent.item)].present
    /\ FileDict[resolve(LastEvent.item)].video_id = LastEvent.vid

\* C5 as amended: a playlist call is made only with a playlist configured,
\* after the record of the file (its stat and the identifier the upload
\* returned) has been written to the state file, itself after the upload;
\* when main reaches the playlist step, and when it is killed there, the
\* state file holds that record.
C5_RecordBeforeAttach ==
  /\ Running =>
       \A i \in DOMAIN hist.trace :
         hist.trace[i].op \in {"attached", "attach_failed"} =>
           /\ args.playlist_id # ""
           /\ \E h, j \in 1..(i - 1) :
                /\ h < j
                /\ hist.trace[h] =
                     Event("published", hist.trace[i].item, hist.trace[i].vid)
                /\ hist.trace[j] =
                     Event("flushed", hist.trace[i].item, hist.trace[i].vid)
  /\ pc = "playlist" =>
       /\ LastEvent = Event("flushed", mp3, video_id)
       /\ Published(mp3, video_id)
       /\ Readable
       /\ FileDict[resolve(mp3)] = state[resolve(mp3)]
       /\ FileDict[resolve(mp3)].present
       /\ FileDict[resolve(mp3)].video_id = video_id
  /\ (pc = "idle" /\ exit = Killed("playlist")) =>
       /\ LastEvent.op = "flushed"
       /\ Readable
       /\ FileDict[resolve(LastEvent.item)].present
       /\ FileDict[resolve(LastEvent.item)].video_id = LastEvent.vid

\* main killed between the write of the state file and the playlist call.
C5_Witness ==
  /\ pc = "idle" /\ exit = Killed("playlist")
  /\ LastEvent.op = "flushed"
  /\ committed[resolve(LastEvent.item)].video_id = LastEvent.vid

\* C6: once the playlist call of a file has failed, its record stays in
\* memory and in the state file; the failure leaves main at the head of the
\* loop with its work queue (the run ends only by returning 0 after the last
\* item, or by a kill); and the next scan, if no program has written the
\* file since, does not select it.
C6_AttachFailureKeepsRecord ==
  /\ Running =>
       \A p \in Names :
         Did("attach_failed", p) =>
           /\ state[resolve(p)].present
           /\ Published(p, state[resolve(p)].video_id)
           /\ Readable => FileDict[resolve(p)] = state[resolve(p)]
  /\ (hist.trace # <<>> /\ LastEvent.op = "attach_failed") =>
       IF Running
       THEN pc = "loop" /\ mp3s = hist.work /\ mp3s[idx] = LastEvent.item
       ELSE exit \in {Returned(0), Killed("loop")}
  /\ (pc = "limit" /\ args.only = NoOnly) =>
       \A p \in hist.prev.attachFailed : p \notin Elems(mp3s)

\* The scan of a run that follows a run in which the playlist call of a
\* file, still there, failed.
C6_Witness ==
  /\ pc = "limit" /\ args.only = NoOnly
  /\ \E p \in hist.prev.attachFailed :
       fs[p].exists /\ state[resolve(p)].present

\* C7 as stated: after a kill at any point, every committed record, other
\* than that of the item the run was on, can be read from the state file.
C7_Original ==
  (pc = "idle" /\ exit.how = "killed") =>
    \A k \in Keys :
      (committed[k].present
         /\ (hist.trace # <<>> => k # resolve(LastEvent.item))) =>
        Readable /\ FileDict[k] = committed[k]

\* C7 as amended: after a kill at any point other than between the
\* truncation of the state file and the end of its rewrite, the state file
\* can be read and holds every committed record.
C7_CommittedSurviveKill ==
  (pc = "idle" /\ exit.how = "killed" /\ exit.at # "write") =>
    /\ Readable
    /\ \A k \in Keys : committed[k].present => FileDict[k] = committed[k]

\* main killed with the next record in memory, right before it opens the
\* state file that holds the record of another file.
C7_Witness ==
  /\ pc = "idle" /\ exit = Killed("save")
  /\ LastEvent.op = "marked"
  /\ \E k \in Keys : k # resolve(LastEvent.item) /\ committed[k].present

\* The item of a failed step is skipped: before the failure the run had only
\* the steps in `before` on it and after the failure it has none; its record
\* is as loaded; the work queue is intact and, if the loop has moved on, its
\* next step was to start the next item; the run is at the head of the loop,
\* or has ended by returning 0 or by a kill.
Skipped(failure, before) ==
  /\ Running =>
       \A i \in DOMAIN hist.trace :
         hist.trace[i].op = failure =>
           LET item == hist.trace[i].item
           IN  /\ \A j \in DOMAIN hist.trace :
                    /\ (j > i) => hist.trace[j].item # item
                    /\ (j < i /\ hist.trace[j].item = item) =>
                         hist.trace[j].op \in before
               /\ Unwritten(resolve(item))
               /\ mp3s = hist.work
               /\ \E n \in 1..idx :
                    /\ mp3s[n] = item
                    /\ (n < idx) =>
                         hist.trace[i + 1] = Event("start", mp3s[n + 1], NoId)
  /\ (hist.trace # <<>> /\ LastEvent.op = failure) =>
       IF Running
       THEN pc = "loop" /\ mp3s[idx] = LastEvent.item
       ELSE exit \in {Returned(0), Killed("loop")}

\* C8: a failed render (nonzero exit of the encoder) does not end the run:
\* no upload, record or playlist call for the item, the state store as it
\* was, and the loop goes on with the rest of the work queue.
C8_RenderFailureSkips == Skipped("render_failed", {"start"})

\* A run that recorded a file after the render of an earlier one failed.
C8_Witness ==
  /\ Running
  /\ \E i, j \in DOMAIN hist.trace :
       i < j /\ hist.trace[i].op = "render_failed" /\ hist.trace[j].op = "flushed"

\* C9: an exception of the upload call does not end the run: no record and
\* no playlist call for the item, the state store and the state file as they
\* were, and the loop goes on with the rest of the work queue.
C9_PublishFailureSkips == Skipped("publish_failed", {"start", "rendered"})

\* A run that recorded a file after the upload of an earlier one raised.
C9_Witness ==
  /\ Running
  /\ \E i, j \in DOMAIN hist.trace :
       i < j /\ hist.trace[i].op = "publish_failed" /\ hist.trace[j].op = "flushed"

Min(a, b) == IF a < b THEN a ELSE b
Started ==
  LET s == SelectSeq(hist.trace, LAMBDA e : e.op = "start")
  IN  [i \in DOMAIN s |-> s[i].item]

\* C10: in a scan run with --limit N, N > 0, and M eligible files, the work
\* queue is min(N, M) distinct eligible files in ascending order of the
\* mtimes the scan read, none newer than an eligible file left out; the loop
\* starts them one at a time in that order, takes no step on any other file
\* and leaves the record of every other file as loaded.
C10_LimitTakesOldest ==
  (Scanned /\ pc # "limit" /\ args.limit > 0) =>
    /\ Len(hist.work) = Min(args.limit, Cardinality(hist.fresh))
    /\ Elems(hist.work) \subseteq hist.fresh
    /\ \A p \in Elems(hist.work) : Count(hist.work, p) = 1
    /\ mp3s = hist.work
    /\ \A i, j \in DOMAIN hist.work :
         i < j => hist.keys[hist.work[i]] <= hist.keys[hist.work[j]]
    /\ \A p \in Elems(hist.work), q \in hist.fresh \ Elems(hist.work) :
         hist.keys[p] <= hist.keys[q]
    /\ Started = SubSeq(hist.work, 1, idx)
    /\ \A i \in DOMAIN hist.trace :
         hist.trace[i].item \in Elems(hist.work) \cup {""}
    /\ \A q \in Names \ Elems(hist.work) : Unwritten(resolve(q))

\* --limit 2 with three eligible files of three different mtimes: the two
\* oldest uploaded and recorded, oldest first, the newest never started and
\* without a record, the run at the end of its work queue.
C10_Witness ==
  /\ pc = "loop" /\ args.only = NoOnly /\ args.limit = 2
  /\ Len(hist.queue) = 3 /\ Len(hist.work) = 2 /\ idx = 2
  /\ hist.keys[hist.queue[1]] < hist.keys[hist.queue[2]]
  /\ hist.keys[hist.queue[2]] < hist.keys[hist.queue[3]]
  /\ hist.work = SubSeq(hist.queue, 1, 2)
  /\ Started = hist.work
  /\ Did("flushed", hist.work[1]) /\ Did("flushed", hist.work[2])
  /\ ~Did("start", hist.queue[3])
  /\ ~state[resolve(hist.queue[3])].present

\* C11 as stated: a run with --dry-run that is not killed returns 0.
C11_Original ==
  [][(Running /\ args.dry_run /\ pc' = "idle" /\ exit'.how # "killed")
       => exit' = Returned(0)]_vars

DryRunEnds ==
  (Running /\ args.dry_run /\ pc' = "idle" /\ exit'.how # "killed") =>
    \/ exit' = Returned(0)
    \/ /\ exit' = Returned(1)
       /\ pc = "select" /\ args.only # NoOnly /\ ~fs[args.only].exists
    \/ /\ exit' = Raised
       /\ pc \in {"sort", "filter"} /\ args.only = NoOnly
       /\ \E i \in DOMAIN files : ~fs[files[i]].exists

\* C11 as amended: a run with --dry-run never gets past the checks made
\* before the loop: it starts no item (no output video, no upload) and
\* leaves the state store as loaded; unless killed, it returns 0, or 1 when
\* --only names a missing file, or it ends by the uncaught error of a stat
\* when a file it listed has been removed before the scan was over.
C11_DryRunOnlyLists ==
  /\ [](Running /\ args.dry_run =>
          /\ pc \in {"select", "sort", "filter", "limit", "check"}
          /\ hist.trace = <<>>
          /\ idx = 0 /\ video_id = NoId
          /\ \A k \in Keys : Unwritten(k))
  /\ [][DryRunEnds]_vars

\* A dry run that listed its work queue and returned 0, the state file
\* without a record.
C11_Witness ==
  /\ pc = "idle" /\ exit = Returned(0)
  /\ hist.trace # <<>> /\ LastEvent.op = "dry_run"
  /\ \E p \in Writable : fs[p].exists /\ ~FileDict[resolve(p)].present

SecretsMissing ==
  (hist'.trace # <<>> /\ hist'.trace[Len(hist'.trace)].op = "no_secrets") =>
    /\ pc = "check" /\ mp3s # <<>> /\ ~args.dry_run
    /\ hist.trace = <<>> /\ idx = 0
    /\ pc' = "idle" /\ exit' = Returned(1)
    /\ state = hist.loaded /\ FileDict = hist.loaded
    /\ stateFile' = stateFile /\ committed' = committed

\* C12: the run finds client_secrets missing only at the check before the
\* loop, with a work queue that is not empty and no dry run; it then ends
\* with exit status 1, having taken no step on any item, the state store and
\* the state file as they were loaded.
C12_MissingSecretsAborts ==
  /\ [][SecretsMissing]_vars
  /\ []((hist.trace # <<>> /\ LastEvent.op = "no_secrets") =>
          pc = "idle" /\ exit = Returned(1) /\ Len(hist.trace) = 1)

\* A run stopped by the missing file, with an audio file that is still not
\* recorded.
C12_Witness ==
  /\ pc = "idle" /\ exit = Returned(1)
  /\ hist.trace # <<>> /\ LastEvent.op = "no_secrets"
  /\ \E p \in Writable : fs[p].exists /\ ~FileDict[resolve(p)].present

\* What the substitution is to produce, read off the template as a whole:
\* the braces of a well-formed template pair up in order, an opening one and
\* then a closing one with a key in between.
BracePos(t) == {i \in DOMAIN t : t[i] \in Braces}
Rank(t, i)  == Cardinality({j \in BracePos(t) : j <= i})
WellFormed(t) ==
  \A i \in BracePos(t) :
    IF Rank(t, i) % 2 = 1
    THEN /\ t[i] = "{"
         /\ \E j \in BracePos(t) :
              Rank(t, j) = Rank(t, i) + 1 /\ t[j] = "}" /\ j > i + 1
    ELSE t[i] = "}"

RECURSIVE Expand(_, _)
Expand(t, context) ==
  IF BracePos(t) = {} THEN t
  ELSE LET i == CHOOSE x \in BracePos(t) : Rank(t, x) = 1
           j == CHOOSE x \in BracePos(t) : Rank(t, x) = 2
           key == strip(SubSeq(t, i + 1, j - 1))
           val == IF key = <<"k">> THEN str(context[<<"k">>]) ELSE <<>>
       IN  SubSeq(t, 1, i - 1) \o val
             \o Expand(SubSeq(t, j + 1, Len(t)), context)

\* C13: render_template returns "" for the empty template and for a template
\* whose braces do not pair up; for a well-formed one it returns the template
\* with every {key} replaced, once, by the text of the value of key ("" for
\* a key the context lacks), or "" when that text has a brace; what it returns
\* never has a brace.
C13_TemplateNeverLeaks ==
  (call.fn = "render_template" /\ ret.done) =>
    LET t == call.template
        c == call.context
    IN  /\ ~HasBrace(ret.value)
        /\ t = <<>> => ret.value = <<>>
        /\ ~WellFormed(t) => ret.value = <<>>
        /\ WellFormed(t) =>
             ret.value = IF HasBrace(Expand(t, c)) THEN <<>> ELSE Expand(t, c)

\* A template with a known key and an unknown key, rendered to the value of
\* the known one.
C13_Witness ==
  /\ call.fn = "render_template" /\ ret.done
  /\ call.template = <<"{", "k", "}", "{", " ", "}">>
  /\ call.context[<<"k">>] = IntVal(7)
  /\ ret.value = <<"7">>

PlainList(mp3_path) ==
  <<"ffmpeg", "-y", "-loop", "1", "-framerate", "1", "-i", "bg.jpg",
    "-i", mp3_path, "-c:v", "libx264", "-tune", "stillimage",
    "-c:a", "aac", "-b:a", "192k", "-shortest", "-pix_fmt", "yuv420p",
    out_path(mp3_path)>>
Has(q, x) == \E i \in DOMAIN q : q[i] = x
SpectrumFlags(b) ==
  /\ Has(b.cmd, "-filter_complex")
  /\ Has(b.graph, "[1:a]showspectrum=s=")
  /\ Has(b.graph, ":slide=") /\ Has(b.graph, ":scale=") /\ Has(b.graph, "mode=")
WavesFlags(b) ==
  Has(b.graph, "[1:a]showwaves=s=") \/ Has(b.graph, ":colors=")

\* C14 as stated: for every waveform object, enabled=false gives the plain
\* argument list and mode="spectrum" gives the spectrum flags and no
\* showwaves flag.
C14_Original ==
  (call.fn = "build_video" /\ ret.done) =>
    /\ call.waveform.enabled = "false" =>
         ~ret.value.raised /\ ret.value.cmd = PlainList(call.mp3_path)
    /\ call.waveform.mode = "spectrum" =>
         ~ret.value.raised /\ SpectrumFlags(ret.value) /\ ~WavesFlags(ret.value)

\* The waveform objects that make build_video raise ValueError: int() is
\* applied to fps always (line 169), to height when the waveform is enabled
\* (line 172) and to spectrum_slide when it is enabled with a spectrum mode
\* (line 179).
Enabled(w)  == w.enabled = "true"
Spectrum(w) == w.mode \in {"spectrum", "showspectrum"}
NotANumber(w) ==
  \/ w.fps = "fast"
  \/ Enabled(w) /\ w.height = "tall"
  \/ Enabled(w) /\ Spectrum(w) /\ w.spectrum_slide = "slow"

\* C14 as amended: build_video raises when int() rejects waveform.fps, or the
\* height of an enabled waveform, or the spectrum_slide of an enabled
\* waveform with a spectrum mode; otherwise a waveform that is not enabled
\* (false or absent) gives the plain argument list, with no filter graph,
\* whatever the mode; an enabled one with mode "spectrum" or "showspectrum"
\* gives a filter graph with the spectrum flags (the configured slide, mode
\* and scale) and no showwaves flag, and with any other mode one with the
\* showwaves flags.
C14_RenderModeSelection ==
  (call.fn = "build_video" /\ ret.done) =>
    LET w == call.waveform
        b == ret.value
    IN  IF NotANumber(w) THEN b.raised
        ELSE /\ ~b.raised
             /\ ~Enabled(w) =>
                  /\ b.cmd = PlainList(call.mp3_path)
                  /\ ~Has(b.cmd, "-filter_complex") /\ b.graph = <<>>
             /\ (Enabled(w) /\ Spectrum(w)) =>
                  /\ SpectrumFlags(b) /\ ~WavesFlags(b)
                  /\ Has(b.graph, IF w.spectrum_slide = Absent THEN "1" ELSE "2")
                  /\ Has(b.graph, IF w.spectrum_mode = Absent
                                  THEN "combined" ELSE "separate")
                  /\ Has(b.graph, IF w.spectrum_scale = Absent
                                  THEN "lin" ELSE "log")
             /\ (Enabled(w) /\ ~Spectrum(w)) =>
                  /\ Has(b.cmd, "-filter_complex")
                  /\ WavesFlags(b) /\ ~Has(b.graph, "[1:a]showspectrum=s=")

\* An enabled waveform with mode "spectrum" and its own height and slide:
\* the spectrum filter graph.
C14_Witness ==
  /\ call.fn = "build_video" /\ ret.done
  /\ call.waveform.enabled = "true" /\ call.waveform.mode = "spectrum"
  /\ call.waveform.height = "120" /\ call.waveform.spectrum_slide = "2"
  /\ SpectrumFlags(ret.value)
  /\ Has(ret.value.graph, "120") /\ Has(ret.value.graph, "2")

\* C15: the size and mtime of a record are those the file had when the work
\* queue was built (the values is_new compared), whatever other programs
\* wrote to the file while the item was processed.
C15_SnapshotRecorded ==
  Running =>
    \A p \in Names :
      Did("marked", p) =>
        /\ state[resolve(p)].size = hist.snap[p].size
        /\ state[resolve(p)].mtime = hist.snap[p].mtime

Times(ops, p) ==
  Cardinality({i \in DOMAIN hist.trace :
                 hist.trace[i].op \in ops /\ hist.trace[i].item = p})

\* In one run the encoder is started at most once and the upload is called
\* at most once for each file.
AtMostOnce ==
  Running =>
    \A p \in Names :
      /\ Times({"rendered", "render_failed", "no_encoder"}, p) <= 1
      /\ Times({"published", "publish_failed"}, p) <= 1
      /\ Times({"start"}, p) <= 1

Failed(p) == Did("render_failed", p) \/ Did("publish_failed", p)

\* C16 as stated: no retry in a run; a file whose render or upload failed
\* has no record; the scan of the next run, when the file is still there and
\* no program has written it since, selects it.
C16_Original ==
  /\ AtMostOnce
  /\ Running => \A p \in Names : Failed(p) => ~state[resolve(p)].present
  /\ (pc = "limit" /\ args.only = NoOnly) =>
       \A p \in hist.prev.failed : fs[p].exists => Count(mp3s, p) = 1

\* C16 as amended: no retry in a run; a file whose render or upload failed
\* keeps the record the run loaded for it, which is none unless the file was
\* queued by --only or because it had changed; the scan of the next run,
\* when the file is still there and no program has written it since,
\* selects it once, unless the record it kept has its size and mtime (a
\* failed --only of a recorded, unchanged file): then that scan leaves it
\* out.
C16_NoRetries ==
  /\ AtMostOnce
  /\ Running =>
       \A p \in Names :
         Failed(p) =>
           /\ Unwritten(resolve(p))
           /\ state[resolve(p)].present =>
                \/ args.only = p
                \/ p \in hist.fresh /\ hist.loaded[resolve(p)].present
  /\ (pc = "limit" /\ args.only = NoOnly) =>
       \A p \in hist.prev.failed :
         fs[p].exists =>
           Count(mp3s, p) = IF p \in hist.prev.recorded THEN 0 ELSE 1

\* The scan of a run that follows a run in which --only of a recorded,
\* unchanged file failed: the file is left out of the queue again, the
\* other file is selected.
C16_Witness ==
  /\ pc = "limit" /\ args.only = NoOnly
  /\ hist.prev.failed = {"a.mp3"} /\ hist.prev.recorded = {"a.mp3"}
  /\ fs["a.mp3"].exists
  /\ state[resolve("a.mp3")].present
  /\ mp3s = <<"b.MP3">>

\* The steps of one item, in the order of the loop body: what may follow
\* each step on the same item, and the steps that end the item (Done,
\* Skipped).
Follows(op) ==
  CASE op = "start"     -> {"rendered", "render_failed", "no_encoder"}
    [] op = "rendered"  -> {"published", "publish_failed", "stat_failed"}
    [] op = "published" -> {"marked", "stat_failed"}
    [] op = "marked"    -> {"flushed"}
    [] op = "flushed"   -> {"attached", "attach_failed", "done"}
    [] OTHER            -> {}
DoneOps    == {"attached", "attach_failed", "done"}
SkippedOps == {"render_failed", "publish_failed"}
FatalOps   == {"no_image", "build_video_raised", "no_encoder", "stat_failed",
               "auth_failed"}
Reached(p) == \E op \in DoneOps \cup SkippedOps : Did(op, p)

InOrder ==
  \A i \in DOMAIN hist.trace :
    LET e == hist.trace[i]
    IN  IF i > 1 /\ hist.trace[i - 1].item = e.item
        THEN e.op \in Follows(hist.trace[i - 1].op)
        ELSE /\ e.op \in {"start", "no_image"}
             /\ i > 1 => hist.trace[i - 1].op \in DoneOps \cup SkippedOps

ReturnsAfterAll ==
  (pc = "loop" /\ pc' = "idle" /\ exit'.how = "return") =>
    /\ exit' = Returned(0)
    /\ \A i \in DOMAIN hist.work : Reached(hist.work[i])

\* C17 as stated: a run that has entered the loop ends by returning 0,
\* unless the process is killed.
C17_Original ==
  (pc = "loop") ~> (pc = "idle" /\ (exit = Returned(0) \/ exit.how = "killed"))

\* C17 as amended: every run ends; the steps on each item follow the order
\* of the loop body, an item being started only after the one before it is
\* Done or Skipped; the upload loop is left as soon as next_chunk returns a
\* response; a run leaves the loop by returning 0 with every item of its
\* work queue Done or Skipped, or else by a kill or by one of the uncaught
\* errors (no image, a waveform setting build_video cannot read, encoder
\* not found, audio file gone).
C17_Terminates ==
  /\ Running ~> (pc = "idle")
  /\ [](Running => InOrder)
  /\ [](pc = "publish" => hist.response \in {"", "None"})
  /\ [][ReturnsAfterAll]_vars
  /\ []((pc = "idle" /\ exit = Raised /\ hist.trace # <<>>) =>
          LastEvent.op \in FatalOps)

\* A run that returned 0 after the playlist call of its last item, both
\* audio files recorded.
C17_Witness ==
  /\ pc = "idle" /\ exit = Returned(0)
  /\ hist.trace # <<>> /\ LastEvent.op = "attached"
  /\ \A p \in Writable : committed[resolve(p)].present

\* What the run looks like when the loop meets an empty images_dir.
NoImage ==
  (hist'.trace # <<>> /\ hist'.trace[Len(hist'.trace)].op = "no_image") =>
    /\ pc = "loop" /\ pc' = "idle"
    /\ exit'.how = "exception" /\ exit'.code # 0
    /\ idx < Len(mp3s)
    /\ hist'.trace[Len(hist'.trace)].item = mp3s[idx + 1]
    /\ \A j \in (idx + 1)..Len(mp3s) :
         /\ \A i \in DOMAIN hist.trace : hist.trace[i].item # mp3s[j]
         /\ Unwritten(resolve(mp3s[j]))
    /\ stateFile' = stateFile /\ committed' = committed
    /\ Readable
    /\ \A p \in Names :
         Did("flushed", p) =>
           /\ FileDict[resolve(p)].present
           /\ FileDict[resolve(p)] = state[resolve(p)]

\* C18: when images_dir has no picture as the loop comes to an item, the run
\* ends there with an exception (exit status not 0): no step is taken on that
\* item or on a later one, their records stay as loaded, and the state file
\* keeps the records written earlier in the run.  With a picture there, the
\* item is started.
C18_EmptyImagePoolAborts ==
  /\ [][NoImage]_vars
  /\ []((hist.trace # <<>> /\ LastEvent.op = "no_image") =>
          pc = "idle" /\ exit = Raised)
  /\ []((Running /\ hist.trace # <<>>) => hist.images # {})

\* The run ended for want of a picture at its second item, the first one
\* recorded in the state file.
C18_Witness ==
  /\ pc = "idle" /\ exit = Raised
  /\ hist.trace # <<>> /\ LastEvent.op = "no_image"
  /\ \E p \in Writable :
       /\ p # LastEvent.item
       /\ FileDict[resolve(p)].present
       /\ ~FileDict[resolve(LastEvent.item)].present

\* What a step of a run may do to the dictionary and to the state file.
Frame ==
  /\ (Running /\ pc' # "idle") =>
       \A k \in Keys :
         state'[k] # state[k] =>
           /\ pc = "mark" /\ k = resolve(mp3)
           /\ LastEvent = Event("published", mp3, video_id)
           /\ state'[k].present /\ state'[k].video_id = video_id
  /\ stateFile' # stateFile =>
       \/ pc = "save" /\ stateFile' = TornFile
       \/ pc = "write" /\ stateFile' = save_json(state) /\ state' = state

\* C19: a run changes its dictionary only in mark_uploaded, right after an
\* upload has returned, and only at the key of that item; no record that was
\* loaded is removed, and no record of a path the run has not marked differs
\* from the one loaded; the state file is written only by save_json, and
\* after each flush reads back as the dictionary in memory.
C19_StateStoreFrame ==
  /\ [][Frame]_vars
  /\ [](Running =>
          \A p \in Names :
            LET k == resolve(p)
            IN  /\ hist.loaded[k].present => state[k].present
                /\ ~Did("marked", p) => state[k] = hist.loaded[k]
                /\ (hist.trace # <<>> /\ LastEvent.op = "flushed") =>
                     Readable /\ FileDict[k] = state[k])

\* A flush that wrote the record of one file next to the record, loaded from
\* the state file, of another.
C19_Witness ==
  /\ Running /\ hist.trace # <<>> /\ LastEvent.op = "flushed"
  /\ \E k \in Keys :
       /\ k # resolve(LastEvent.item)
       /\ hist.loaded[k].present
       /\ FileDict[k] = hist.loaded[k]
  /\ FileDict[resolve(LastEvent.item)].video_id = LastEvent.vid

\* The selection step of a run with --only.
OnlySelects ==
  (pc = "select" /\ args.only # NoOnly /\ pc' # "select"
     /\ exit'.how # "killed") =>
    IF fs[args.only].exists
    THEN pc' = "limit" /\ mp3s' = <<args.only>>
    ELSE /\ pc' = "idle" /\ exit' = Returned(1)
         /\ hist.trace = <<>> /\ hist'.trace = <<>>
         /\ state = hist.loaded
         /\ stateFile' = stateFile /\ committed' = committed

\* C20: with --only naming an existing file the work queue is that file,
\* whatever its record; once its record is written, the record holds what
\* this run's upload returned, an identifier the platform gave (when it
\* gave one) being another than the one loaded; with --only naming a
\* missing file the run returns 1 having taken no step and written nothing.
C20_OnlyBypassesDetection ==
  /\ [][OnlySelects]_vars
  /\ []((Running /\ args.only # NoOnly /\ pc # "select") =>
          /\ mp3s = <<args.only>>
          /\ \A i \in DOMAIN hist.trace : hist.trace[i].item = args.only
          /\ Did("marked", args.only) =>
               /\ state[resolve(args.only)].video_id = video_id
               /\ Published(args.only, video_id)
               /\ video_id # NoId =>
                    state[resolve(args.only)].video_id
                      # hist.loaded[resolve(args.only)].video_id)

\* A run with --only on a file recorded with its current size and mtime:
\* uploaded again, the record rewritten with the new identifier.
C20_Witness ==
  /\ Running /\ args.only # NoOnly
  /\ hist.trace # <<>> /\ LastEvent.op = "flushed"
  /\ hist.loaded[resolve(args.only)].present
  /\ hist.loaded[resolve(args.only)].size = hist.snap[args.only].size
  /\ hist.loaded[resolve(args.only)].mtime = hist.snap[args.only].mtime
  /\ FileDict[resolve(args.only)].video_id
       # hist.loaded[resolve(args.only)].video_id

====
